---- MODULE Spec2Model ----
(***************************************************************************)
(* Mass/spring simulator of src/main.cpp: struct Mass, struct Spring and   *)
(* struct System (construction, forcesZero, updateForces, applyForces,     *)
(* process).                                                               *)
(*                                                                         *)
(* A C++ float is modelled as a record: a finite value is a fixed-point    *)
(* number with Scale units per 1.0 (every product, quotient and square     *)
(* root rounds, as a float operation does), and the IEEE special values    *)
(* NaN, +inf and -inf are kept, because the code divides by a distance and *)
(* by a mass that may both be zero.                                        *)
(*                                                                         *)
(* status is "unbuilt" before System::System has run, "ready" once a       *)
(* System exists and process can be called, "crashed" after a fault.       *)
(* steps counts the calls of process and dt is the argument of the last.   *)
(***************************************************************************)
EXTENDS Integers, Sequences, FiniteSets, TLC

VARIABLES status, masses, springs, steps, dt

vars == <<status, masses, springs, steps, dt>>

(***************************************************************************)
(* Bounds of the model.                                                    *)
(***************************************************************************)
\* number of process(dt) calls the driving loop makes
MaxSteps == 2
\* fixed-point units per 1.0
Scale == 100

(***************************************************************************)
(* float                                                                   *)
(***************************************************************************)
Fin(n) == [c |-> "fin", v |-> n]
NaN == [c |-> "nan", v |-> 0]
Inf(s) == [c |-> "inf", v |-> s]

IsFin(a) == a.c = "fin"
IsNaN(a) == a.c = "nan"
IsInf(a) == a.c = "inf"

Abs(n) == IF n < 0 THEN -n ELSE n
Sgn(n) == IF n < 0 THEN -1 ELSE IF n > 0 THEN 1 ELSE 0
\* sign of a float that is not NaN, a zero counting as positive
SignOf(a) == IF a.v < 0 THEN -1 ELSE 1

\* num/den rounded to the nearest integer, symmetric in the sign (den > 0)
Rnd(num, den) == Sgn(num) * ((2 * Abs(num) + den) \div (2 * den))

RECURSIVE ISqrtB(_, _, _)
ISqrtB(n, lo, hi) ==
  IF lo >= hi THEN lo
  ELSE LET mid == (lo + hi + 1) \div 2
       IN IF mid * mid <= n THEN ISqrtB(n, mid, hi) ELSE ISqrtB(n, lo, mid - 1)

\* floor of the square root of n >= 0
ISqrt(n) == ISqrtB(n, 0, IF n < 46340 THEN n ELSE 46340)

\* a literal num/den of the source text
Lit(num, den) == Fin(Rnd(num * Scale, den))

Zero == Fin(0)
One == Fin(Scale)

FNeg(a) == IF IsNaN(a) THEN NaN ELSE [c |-> a.c, v |-> -a.v]

FAdd(a, b) ==
  IF IsNaN(a) \/ IsNaN(b) THEN NaN
  ELSE IF IsInf(a) /\ IsInf(b) THEN (IF a.v = b.v THEN a ELSE NaN)
  ELSE IF IsInf(a) THEN a
  ELSE IF IsInf(b) THEN b
  ELSE Fin(a.v + b.v)

FSub(a, b) == FAdd(a, FNeg(b))

FMul(a, b) ==
  IF IsNaN(a) \/ IsNaN(b) THEN NaN
  ELSE IF IsInf(a) \/ IsInf(b)
       THEN (IF a.v = 0 \/ b.v = 0 THEN NaN ELSE Inf(SignOf(a) * SignOf(b)))
  ELSE Fin(Rnd(a.v * b.v, Scale))

FDiv(a, b) ==
  IF IsNaN(a) \/ IsNaN(b) THEN NaN
  ELSE IF IsInf(a) THEN (IF IsInf(b) THEN NaN ELSE Inf(SignOf(a) * SignOf(b)))
  ELSE IF IsInf(b) THEN Zero
  ELSE IF b.v = 0 THEN (IF a.v = 0 THEN NaN ELSE Inf(SignOf(a)))
  ELSE Fin(Sgn(b.v) * Rnd(a.v * Scale, Abs(b.v)))

(***************************************************************************)
(* Vector2f                                                                *)
(***************************************************************************)
Vector2f(x, y) == <<x, y>>
VZero == Vector2f(Zero, Zero)
VAdd(a, b) == Vector2f(FAdd(a[1], b[1]), FAdd(a[2], b[2]))
VSub(a, b) == Vector2f(FSub(a[1], b[1]), FSub(a[2], b[2]))
\* scalar * vector
VScale(s, a) == Vector2f(FMul(s, a[1]), FMul(s, a[2]))

\* Eigen's norm(): the square root of the sum of the squares; the sum is kept
\* exact and the root rounds, so that the norm is zero only for the zero vector
Norm(a) ==
  IF IsNaN(a[1]) \/ IsNaN(a[2]) THEN NaN
  ELSE IF IsInf(a[1]) \/ IsInf(a[2]) THEN Inf(1)
  ELSE Fin(ISqrt(a[1].v * a[1].v + a[2].v * a[2].v))

(***************************************************************************)
(* struct Mass                                                             *)
(***************************************************************************)
\* Mass(float x, float y, float m): a free mass; forcesApplied has no
\* initializer, u is the value the uninitialized member happens to hold
Mass3(x, y, m, u) ==
  [m |-> m, position |-> Vector2f(x, y), velocity |-> Vector2f(Zero, Zero),
   forcesApplied |-> u, isFixed |-> FALSE]

\* Mass(float x, float y): a fixed mass
Mass2(x, y, u) ==
  [m |-> Zero, position |-> Vector2f(x, y), velocity |-> Vector2f(Zero, Zero),
   forcesApplied |-> u, isFixed |-> TRUE]

(***************************************************************************)
(* struct Spring                                                           *)
(***************************************************************************)
\* a Mass* that points to no mass; a pointer &masses[i] is the index i
nullptr == -1

\* {.k = k, .l = l}: the members not named are value-initialized
Spring(k, l) == [k |-> k, l |-> l, mass1 |-> nullptr, mass2 |-> nullptr]

\* Spring::force() of spring s, the masses read through mem. 1./norm is
\* infinite for coincident endpoints, and its product with the zero vector
\* x2-x1 is then (NaN, NaN)
force(s, mem) ==
  LET x1 == mem[s.mass1].position
      x2 == mem[s.mass2].position
      direction == VScale(FDiv(One, Norm(VSub(x2, x1))), VSub(x2, x1))
  IN VScale(FMul(s.k, FSub(Norm(VSub(x2, x1)), s.l)), direction)

(***************************************************************************)
(* struct System                                                           *)
(***************************************************************************)
Size(f) == Cardinality(DOMAIN f)

\* the constructor's loop over the connectivity map: spring c.first gets the
\* addresses of masses c.second.first and c.second.second, in range or not
Wire(springs_, connectivity) ==
  [i \in DOMAIN springs_ |->
     IF i \in DOMAIN connectivity
     THEN [springs_[i] EXCEPT !.mass1 = connectivity[i][1],
                              !.mass2 = connectivity[i][2]]
     ELSE springs_[i]]

\* the entries whose spring index is past the end of springs: the
\* constructor writes through springs[c.first] all the same
StrayWrites(springs_, connectivity) == DOMAIN connectivity \ DOMAIN springs_

\* System::forcesZero
forcesZero(ms) == [i \in DOMAIN ms |-> [ms[i] EXCEPT !.forcesApplied = VZero]]

\* updateForce with the two signs exchanged
updateForce_SignsExchanged(mem, s) ==
  LET m1 == [mem EXCEPT ![s.mass1].forcesApplied = VSub(@, force(s, mem))]
  IN [m1 EXCEPT ![s.mass2].forcesApplied = VAdd(@, force(s, m1))]

\* one iteration of the loop of System::updateForces, for spring s
updateForce(mem, s) ==
  LET m1 == [mem EXCEPT ![s.mass1].forcesApplied = VAdd(@, force(s, mem))]
  IN [m1 EXCEPT ![s.mass2].forcesApplied = VSub(@, force(s, m1))]

\* System::updateForces: the springs in index order, from spring i on
RECURSIVE updateForcesFrom(_, _, _)
updateForcesFrom(mem, ss, i) ==
  IF i \notin DOMAIN ss THEN mem
  ELSE updateForcesFrom(updateForce(mem, ss[i]), ss, i + 1)

updateForces(mem, ss) == updateForcesFrom(mem, ss, 0)

\* applyForce without the test of isFixed
applyForce_FixedNotSkipped(m, d) ==
  LET v == VAdd(m.velocity, VScale(FDiv(d, m.m), m.forcesApplied))
  IN [m EXCEPT !.velocity = v, !.position = VAdd(m.position, VScale(d, v))]

\* applyForce moving the mass with the velocity it had before the step
applyForce_OldVelocity(m, d) ==
  IF ~m.isFixed
  THEN [m EXCEPT !.velocity = VAdd(m.velocity, VScale(FDiv(d, m.m), m.forcesApplied)),
                 !.position = VAdd(m.position, VScale(d, m.velocity))]
  ELSE m

\* the body of the loop of System::applyForces, for mass m
applyForce(m, d) ==
  IF ~m.isFixed
  THEN LET v == VAdd(m.velocity, VScale(FDiv(d, m.m), m.forcesApplied))
       IN [m EXCEPT !.velocity = v, !.position = VAdd(m.position, VScale(d, v))]
  ELSE m

\* System::applyForces
applyForces(ms, d) == [i \in DOMAIN ms |-> applyForce(ms[i], d)]

\* process without the call of forcesZero
process_NoReset(ms, ss, d) == applyForces(updateForces(ms, ss), d)

\* System::process
process(ms, ss, d) == applyForces(updateForces(forcesZero(ms), ss), d)

\* The endpoints of the springs that are no element of masses: nullptr, or
\* &masses[i] with i past the end. Dereferencing them is undefined: a call
\* of process either faults (status "crashed") or, for a pointer past the
\* end, goes on with whatever lies there.
IsMass(ms, p) == p \in DOMAIN ms
Endpoints(ss) == {ss[i].mass1 : i \in DOMAIN ss} \cup {ss[i].mass2 : i \in DOMAIN ss}
Dangling(ms, ss) == {p \in Endpoints(ss) : ~IsMass(ms, p)}

\* process when springs point past the end of masses and the reads do not
\* fault: force() reads whatever lies there (junk) and the += and -= land
\* outside the collection
processDangling(ms, ss, d, junk) ==
  LET mem == [p \in DOMAIN ms \cup Dangling(ms, ss) |->
                IF p \in DOMAIN ms THEN forcesZero(ms)[p] ELSE junk]
      upd == updateForces(mem, ss)
  IN applyForces([i \in DOMAIN ms |-> upd[i]], d)

(***************************************************************************)
(* Inputs: the arguments the harness gives the constructors and process.   *)
(* A system has two masses, the first at the origin (only differences of   *)
(* positions are ever used), and one or two springs.                       *)
(***************************************************************************)
Whole(n) == Lit(n, 1)

\* initial positions of the second mass, in whole units
Positions == {<<0, 0>>, <<0, -3>>, <<3, 4>>}
\* the scalar mass given to the three-argument constructor
MassValues == {3, 1, 0, -1}
\* what an uninitialized forcesApplied may hold
Uninit == {Vector2f(Whole(7), Whole(-7)), Vector2f(NaN, NaN)}
\* (k, l) of a spring
SpringValues == {<<3, 2>>, <<2, 5>>}
\* timesteps
Dts == {Lit(1, 10), Lit(1, 2)}
\* the indices of the masses, and the numbers of springs
MassIndices == 0 .. 1
MassCount == Cardinality(MassIndices)
SpringCounts == {1, 2}

MassArgs(pos) ==
  [fixed : {TRUE}, pos : pos, m : {0}] \cup [fixed : {FALSE}, pos : pos, m : MassValues]

MassLists ==
  {args \in [MassIndices -> MassArgs(Positions)] : args[0].pos = <<0, 0>>}

MakeMass(a, u) ==
  IF a.fixed THEN Mass2(Whole(a.pos[1]), Whole(a.pos[2]), u)
  ELSE Mass3(Whole(a.pos[1]), Whole(a.pos[2]), Whole(a.m), u)

\* connectivity maps: a key one past the springs at most (and then for the
\* pair (0, 0)), a mass index one past the masses at most
Connectivities(ns) ==
  UNION {[keys -> (0 .. MassCount) \X (0 .. MassCount)] : keys \in SUBSET (0 .. ns - 1)}
    \cup UNION {{[k \in keys \cup {ns} |-> IF k = ns THEN <<0, 0>> ELSE c[k]] :
                   c \in [keys -> (0 .. MassCount) \X (0 .. MassCount)]} :
                keys \in SUBSET (0 .. ns - 1)}

\* every free mass is positive, and the connectivity gives every spring, and
\* nothing else, two masses of the system
WellFormed(args, ns, connectivity) ==
  /\ \A i \in DOMAIN args : args[i].fixed \/ args[i].m > 0
  /\ DOMAIN connectivity = 0 .. ns - 1
  /\ \A k \in DOMAIN connectivity :
       connectivity[k][1] < MassCount /\ connectivity[k][2] < MassCount

\* ill-formed inputs are tried on systems of one spring
Inputs ==
  {in \in [args : MassLists, ns : SpringCounts, connectivity : UNION {Connectivities(n) : n \in SpringCounts}] :
     /\ in.connectivity \in Connectivities(in.ns)
     /\ in.ns = 1 \/ WellFormed(in.args, in.ns, in.connectivity)}

(***************************************************************************)
(* The state machine.                                                      *)
(***************************************************************************)
Init ==
  /\ status = "unbuilt"
  /\ masses = <<>>
  /\ springs = <<>>
  /\ steps = 0
  /\ dt = Zero

\* System::System, reached from the harness with the vectors it built
Construct ==
  /\ status = "unbuilt"
  /\ \E in \in Inputs, u \in Uninit :
       \E sv \in [0 .. in.ns - 1 -> SpringValues] :
         LET masses_ == [i \in MassIndices |-> MakeMass(in.args[i], u)]
             springs_ == [i \in 0 .. in.ns - 1 |-> Spring(Whole(sv[i][1]), Whole(sv[i][2]))]
         IN /\ masses' = masses_
            /\ springs' = Wire(springs_, in.connectivity)
            /\ \/ status' = "ready"
               \/ /\ StrayWrites(springs_, in.connectivity) # {}
                  /\ status' = "crashed"
  /\ UNCHANGED <<steps, dt>>

\* System::process(d)
Process ==
  /\ status = "ready"
  /\ steps < MaxSteps
  /\ \E d \in Dts :
       /\ dt' = d
       /\ steps' = steps + 1
       /\ \/ /\ Dangling(masses, springs) = {}
             /\ masses' = process(masses, springs, d)
             /\ status' = status
          \/ /\ Dangling(masses, springs) # {}
             /\ masses' = masses
             /\ status' = "crashed"
          \/ /\ Dangling(masses, springs) # {}
             /\ nullptr \notin Dangling(masses, springs)
             /\ \E junk \in {Mass2(Whole(p[1]), Whole(p[2]), VZero) : p \in Positions} :
                  masses' = processDangling(masses, springs, d, junk)
             /\ status' = status
  /\ UNCHANGED springs

Next == Construct \/ Process

Spec == Init /\ [][Next]_vars

(***************************************************************************)
(* Vocabulary of the properties.                                           *)
(***************************************************************************)
VNeg(a) == Vector2f(FNeg(a[1]), FNeg(a[2]))
VIsFin(a) == IsFin(a[1]) /\ IsFin(a[2])

Ready == status = "ready"
\* this step is a call of process that returned
Stepped == steps' = steps + 1 /\ status' = "ready"
\* every spring points to two masses of the system
Wired == Dangling(masses, springs) = {}
AllFixed == \A p \in DOMAIN masses : masses[p].isFixed
NoFixed == \A p \in DOMAIN masses : ~masses[p].isFixed
PositiveMasses == \A p \in DOMAIN masses : masses[p].isFixed \/ masses[p].m.v > 0
FiniteState ==
  \A p \in DOMAIN masses : VIsFin(masses[p].position) /\ VIsFin(masses[p].velocity)
NonZero(a) == VIsFin(a) /\ a # VZero

\* the distance of the endpoints of spring s, as force() computes it
Length(s, ms) == Norm(VSub(ms[s.mass2].position, ms[s.mass1].position))

\* the net force on mass p from the positions in ms: the springs in index
\* order, each giving sign1 * F to its mass1 and -sign1 * F to its mass2
RECURSIVE NetForceUpTo(_, _, _, _, _)
NetForceUpTo(ms, ss, p, sign1, i) ==
  IF i < 0 THEN VZero
  ELSE LET acc == NetForceUpTo(ms, ss, p, sign1, i - 1)
           F == IF sign1 > 0 THEN force(ss[i], ms) ELSE VNeg(force(ss[i], ms))
           a1 == IF ss[i].mass1 = p THEN VAdd(acc, F) ELSE acc
       IN IF ss[i].mass2 = p THEN VSub(a1, F) ELSE a1

NetForce(ms, ss, p, sign1) == NetForceUpTo(ms, ss, p, sign1, Size(ss) - 1)

RECURSIVE SumUpTo(_, _)
SumUpTo(f, i) == IF i < 0 THEN VZero ELSE VAdd(SumUpTo(f, i - 1), f[i])

\* the sum of the accumulated forces, and the total momentum
SumForces(ms) == SumUpTo([p \in DOMAIN ms |-> ms[p].forcesApplied], Size(ms) - 1)
Momentum(ms) == SumUpTo([p \in DOMAIN ms |-> VScale(ms[p].m, ms[p].velocity)], Size(ms) - 1)

\* what rounding dt/m and (dt/m) * F can add to component c of the momentum
\* in one step, times 2 * Scale * Scale
Slack(ms, c) ==
  LET term(p) == Abs(ms[p].m.v) * (Abs(ms[p].forcesApplied[c].v) + Scale)
  IN term(0) + term(1)

Dot(a, b) == a[1].v * b[1].v + a[2].v * b[2].v

(***************************************************************************)
(* C1: a fixed mass keeps the position and the velocity it was built with  *)
(* through every process(dt), whatever dt is, although updateForces writes *)
(* its forcesApplied.                                                      *)
(***************************************************************************)
C1_FixedMassInvariance ==
  [][status # "unbuilt" =>
       \A p \in DOMAIN masses :
         masses[p].isFixed =>
           /\ masses'[p].isFixed
           /\ masses'[p].position = masses[p].position
           /\ masses'[p].velocity = masses[p].velocity]_vars

\* two steps taken; a fixed mass carries a force and a free mass has moved
C1_Witness ==
  /\ Ready /\ steps >= 2
  /\ \E p \in DOMAIN masses :
       /\ masses[p].isFixed
       /\ NonZero(masses[p].forcesApplied)
       /\ masses[p].velocity = VZero
  /\ \E q \in DOMAIN masses : ~masses[q].isFixed /\ NonZero(masses[q].velocity)

(***************************************************************************)
(* C2 as stated: after a step every mass's forcesApplied is the sum of +F  *)
(* over the springs of which it is mass2 minus the sum of F over the       *)
(* springs of which it is mass1, F being the force of the spring at the    *)
(* positions the step started from.                                        *)
(***************************************************************************)
C2_ForceOnMass2 ==
  [][(Stepped /\ Wired) =>
       \A p \in DOMAIN masses :
         masses'[p].forcesApplied = NetForce(masses, springs, p, -1)]_vars

(***************************************************************************)
(* C2 amended: after a step every mass's forcesApplied is the sum of +F    *)
(* over the springs of which it is mass1 minus the sum of F over the       *)
(* springs of which it is mass2.                                           *)
(***************************************************************************)
C2_ForceOnMass1 ==
  [][(Stepped /\ Wired) =>
       \A p \in DOMAIN masses :
         masses'[p].forcesApplied = NetForce(masses, springs, p, 1)]_vars

\* both masses fixed (the positions are those the step started from), two
\* springs, and mass1 of spring 0 carries the net force with +F for mass1,
\* which is not the one with +F for mass2
C2_Witness ==
  /\ Ready /\ steps >= 1 /\ Wired /\ AllFixed /\ Size(springs) = 2
  /\ springs[0].mass1 # springs[0].mass2
  /\ NonZero(masses[springs[0].mass1].forcesApplied)
  /\ masses[springs[0].mass1].forcesApplied = NetForce(masses, springs, springs[0].mass1, 1)
  /\ masses[springs[0].mass1].forcesApplied # NetForce(masses, springs, springs[0].mass1, -1)

(***************************************************************************)
(* C3: with no fixed mass and every spring between two distinct masses at  *)
(* distinct positions, a step leaves the accumulated forces summing to the *)
(* zero vector and the total momentum where it was, up to the rounding of  *)
(* dt/m and of (dt/m) * F.                                                 *)
(***************************************************************************)
C3_Conserved ==
  /\ SumForces(masses') = VZero
  /\ VIsFin(Momentum(masses)) /\ VIsFin(Momentum(masses'))
  /\ \A c \in {1, 2} :
       2 * Scale * Scale * Abs(Momentum(masses')[c].v - Momentum(masses)[c].v)
         <= Slack(masses', c)

C3_Closed ==
  /\ Stepped /\ Wired /\ NoFixed /\ FiniteState
  /\ \A i \in DOMAIN springs :
       /\ springs[i].mass1 # springs[i].mass2
       /\ masses[springs[i].mass1].position # masses[springs[i].mass2].position

C3_MomentumConserved == [][C3_Closed => C3_Conserved]_vars

\* the same, for systems whose free masses are all positive
C3_ForPositiveMasses == [][(C3_Closed /\ PositiveMasses) => C3_Conserved]_vars

(***************************************************************************)
(* C4: one spring between a fixed mass A and a free mass B at rest at a    *)
(* distance d # 0: after the first process(dt), dt > 0, the velocity of B  *)
(* points toward A if d > l and away from A if d < l, and the force on B   *)
(* has magnitude k * |d - l| (up to the rounding of the direction).        *)
(***************************************************************************)
C4_OneSpring(a, b) ==
  /\ Stepped /\ Wired /\ steps = 0 /\ dt'.v > 0
  /\ Size(springs) = 1
  /\ {springs[0].mass1, springs[0].mass2} = {a, b}
  /\ masses[a].isFixed /\ ~masses[b].isFixed
  /\ masses[b].velocity = VZero
  /\ Length(springs[0], masses) # Zero

C4_Restores(a, b) ==
  LET d == Length(springs[0], masses)
      l == springs[0].l
      toA == VSub(masses[a].position, masses[b].position)
      v == masses'[b].velocity
      F == masses'[b].forcesApplied
      K == Abs(FMul(springs[0].k, FSub(d, l)).v)
  IN /\ VIsFin(v) /\ VIsFin(F)
     /\ d.v > l.v => Dot(v, toA) > 0
     /\ d.v < l.v => Dot(v, toA) < 0
     /\ 2 * Scale * Scale * Abs(Norm(F).v - K) <= K * (d.v + 2 * Scale) + 4 * Scale * Scale

C4_RestoringForce ==
  [][\A a, b \in DOMAIN masses : C4_OneSpring(a, b) => C4_Restores(a, b)]_vars

\* the same, for a free mass B that is positive
C4_ForPositiveMasses ==
  [][\A a, b \in DOMAIN masses :
       (C4_OneSpring(a, b) /\ PositiveMasses) => C4_Restores(a, b)]_vars

(***************************************************************************)
(* C5: a System on which process can be called has every spring pointing   *)
(* to two masses of its own collection: construction fails when the        *)
(* connectivity leaves a spring without them.                              *)
(***************************************************************************)
C5_ConstructionValidatesWiring == Ready => Wired

(***************************************************************************)
(* C6: a System on which process can be called has no free mass with       *)
(* m <= 0: construction rejects it, and applyForces never divides by it.   *)
(***************************************************************************)
C6_ConstructionRejectsNonPositiveMass == Ready => PositiveMasses

(***************************************************************************)
(* C7: a step taken while the two endpoints of some spring are at the same *)
(* position (or are the same mass) does not return with an undefined value *)
(* in the forcesApplied, velocity or position of any mass.                 *)
(***************************************************************************)
C7_Degenerate ==
  /\ steps' = steps + 1
  /\ Ready /\ Wired /\ PositiveMasses /\ FiniteState
  /\ \E i \in DOMAIN springs : Length(springs[i], masses) = Zero

C7_NoUndefinedValueStored ==
  [][C7_Degenerate =>
       \/ status' # "ready"
       \/ \A p \in DOMAIN masses :
            /\ VIsFin(masses'[p].forcesApplied)
            /\ VIsFin(masses'[p].velocity)
            /\ VIsFin(masses'[p].position)]_vars

(***************************************************************************)
(* C8: when every mass is at rest and every spring has its rest length     *)
(* (not zero), a step leaves every force zero, every position where it was *)
(* and every velocity zero.                                                *)
(***************************************************************************)
C8_AtRest ==
  /\ Stepped /\ Wired /\ FiniteState
  /\ \A p \in DOMAIN masses : masses[p].velocity = VZero
  /\ \A i \in DOMAIN springs :
       Length(springs[i], masses) = springs[i].l /\ springs[i].l # Zero

C8_StaysAtRest ==
  \A p \in DOMAIN masses :
    /\ masses'[p].forcesApplied = VZero
    /\ masses'[p].position = masses[p].position
    /\ masses'[p].velocity = VZero

C8_Equilibrium == [][C8_AtRest => C8_StaysAtRest]_vars

\* the same, for systems whose free masses are all positive
C8_ForPositiveMasses == [][(C8_AtRest /\ PositiveMasses) => C8_StaysAtRest]_vars

(***************************************************************************)
(* C9: a step gives every free mass v' = v + (dt/m) * F, with F the net    *)
(* force of the springs at the positions the step started from, and then   *)
(* x' = x + dt * v', with the new velocity.                                *)
(***************************************************************************)
C9_SemiImplicitEuler ==
  [][Stepped =>
       \A p \in DOMAIN masses :
         ~masses[p].isFixed =>
           /\ Wired => masses'[p].forcesApplied = NetForce(masses, springs, p, 1)
           /\ masses'[p].velocity =
                VAdd(masses[p].velocity,
                     VScale(FDiv(dt', masses[p].m), masses'[p].forcesApplied))
           /\ masses'[p].position =
                VAdd(masses[p].position, VScale(dt', masses'[p].velocity))]_vars

\* after the second step a free mass with a velocity built up over two
\* steps, different from what the last force alone gives
C9_Witness ==
  /\ Ready /\ steps >= 2 /\ Wired
  /\ \E p \in DOMAIN masses :
       /\ ~masses[p].isFixed
       /\ NonZero(masses[p].velocity)
       /\ NonZero(masses[p].forcesApplied)
       /\ VIsFin(masses[p].position)
       /\ masses[p].velocity # VScale(FDiv(dt, masses[p].m), masses[p].forcesApplied)

(***************************************************************************)
(* C10: process resets the forces before it accumulates them: the state a  *)
(* step leaves does not depend on the forcesApplied it found (left by the  *)
(* step before, or never set), and a step that finds the forces of the     *)
(* positions it starts from leaves them as they are, not added to.         *)
(***************************************************************************)
Leftovers == Uninit \cup {VZero}
WithForces(ms, u) == [p \in DOMAIN ms |-> [ms[p] EXCEPT !.forcesApplied = u]]

C10_ForcesResetEachStep ==
  [][(Stepped /\ Wired) =>
       /\ \A u \in Leftovers : masses' = process(WithForces(masses, u), springs, dt')
       /\ (\A p \in DOMAIN masses :
             masses[p].forcesApplied = NetForce(masses, springs, p, 1))
            => \A p \in DOMAIN masses :
                 masses'[p].forcesApplied = masses[p].forcesApplied]_vars

\* the positions repeat (both masses are fixed) and after two steps the
\* forces are still those of one accumulation
C10_Witness ==
  /\ Ready /\ steps >= 2 /\ Wired /\ AllFixed
  /\ \E p \in DOMAIN masses :
       /\ NonZero(masses[p].forcesApplied)
       /\ masses[p].forcesApplied = NetForce(masses, springs, p, 1)

====
